---- MODULE Spec2Model ----
(***************************************************************************)
(* Model of MusicPlayer (src/music/music-player.js): the per-guild player  *)
(* with its queue, current song, autoplay history, idle timer and the      *)
(* asynchronous work it starts (voice joins, stream dispatchers, related-  *)
(* video lookups, leave timeouts).  JavaScript runs each handler to        *)
(* completion, so every action below is one handler run; the promises and  *)
(* event emitters the handlers leave behind are the pending items that     *)
(* later actions complete in any order.                                    *)
(***************************************************************************)
EXTENDS Integers, Sequences, FiniteSets, TLC

\* ---------------------------------------------------------------- bounds
MaxPending == 1     \* joins, dispatchers and lookups in flight at once
MaxQueue == 2       \* items waiting in the queue at once
MaxRec == 1         \* ids recorded in the autoplay history between clears
MaxTimers == 1      \* leave timeouts armed at once
MaxHistRec == 27    \* as MaxRec, for the specification of the history bound
MaxPageQueue == 21  \* as MaxQueue, for the specification of the queue pages
MaxPage == 4        \* page numbers asked of sendQueueEmbed
MaxHours == 1       \* whole hours of the durations given to getDurationStr

\* ------------------------------------------------------ program constants
MAX_AUTOPLAY_HISTORY == 25
\* volume is a float 0.0 .. 1.0 in the source; the model counts tenths
VolOne == 10

\* the bounds a specification runs under
Caps == [pending |-> MaxPending, queue |-> MaxQueue, rec |-> MaxRec,
         timers |-> MaxTimers]
\* one more operation in flight and one more timer, for the races between
\* a handler and the completion of work started earlier
RaceCaps == [pending |-> MaxPending + 1, queue |-> MaxQueue, rec |-> MaxRec,
             timers |-> MaxTimers + 1]
HistCaps == [pending |-> MaxPending, queue |-> MaxQueue, rec |-> MaxHistRec,
             timers |-> MaxTimers]
PageCaps == [pending |-> MaxPending, queue |-> MaxPageQueue, rec |-> MaxRec,
             timers |-> MaxTimers]

\* video ids and voice channel ids: only their equality matters
Songs == {"X123", "Y456"}
Channels == {"general", "music"}
\* arguments handed to setVolume: below the range and above it
VolArgs == {0 - 5, VolOne + 5}

\* a MusicQueueItem: the song's video id, the requester's display name, and
\* the method that constructed the object
Item(s, u, by) == [song |-> s, user |-> u, by |-> by]
\* currentSong = null
NoItem == [song |-> "", user |-> "null", by |-> "null"]
\* voiceConnection = null
NoChan == "none"
\* no embed built yet
NoEmbed == [op |-> "none", arg |-> 0, out |-> <<>>]

VARIABLES
    queue,            \* this.queue
    currentSong,      \* this.currentSong (NoItem for null)
    isPlaying,        \* this.isPlaying
    isAutoPlaying,    \* this.isAutoPlaying
    latestAutoplay,   \* this.latestAutoplay
    leaveTimeout,     \* this.leaveTimeout: a timer handle, 0 for null
    voiceConnection,  \* this.voiceConnection: its channel id, NoChan for null
    dispatcher,       \* this.dispatcher: a dispatcher id, 0 for null
    volume,           \* this.volume, in tenths
    dispVol,          \* volume last set on this.dispatcher
    streams,          \* the dispatchers that have not emitted their
                      \* terminal event: id, song, listeners attached
    joins,            \* pending voiceChannel.join() promises: channel, song,
                      \* and (history) currentSong before the call
    searches,         \* pending searchRelatedVideo() promises
    timers,           \* setTimeout handles armed and not yet fired/cleared
    recLog,           \* history: ids pushed to latestAutoplay since last clear
    shown             \* the last embed built by sendSongEmbed (its duration
                      \* text) or by sendQueueEmbed, with the argument given

vars == <<queue, currentSong, isPlaying, isAutoPlaying, latestAutoplay,
          leaveTimeout, voiceConnection, dispatcher, volume, dispVol,
          streams, joins, searches, timers, recLog, shown>>

RemoveAt(seq, i) == SubSeq(seq, 1, i - 1) \o SubSeq(seq, i + 1, Len(seq))

StreamIds == {r.id : r \in streams}
Stream(d) == CHOOSE r \in streams : r.id = d
\* the dispatcher this.dispatcher refers to has not ended
DispatcherLive == dispatcher \in StreamIds
\* the asynchronous work in flight
InFlight == Cardinality(streams) + Len(joins) + Len(searches)

\* ------------------------------------------------------------------ Init
\* the fields set by the constructor, lines 36-99
InitRoom ==
    /\ queue = <<>>
    /\ currentSong = NoItem
    /\ isPlaying = FALSE
    /\ isAutoPlaying = FALSE
    /\ latestAutoplay = <<>>
    /\ leaveTimeout = 0
    /\ voiceConnection = NoChan
    /\ dispatcher = 0
    /\ volume = VolOne
    /\ dispVol = VolOne
    /\ streams = {}
    /\ joins = <<>>
    /\ searches = <<>>
    /\ timers = {}
    /\ recLog = <<>>

Init == InitRoom /\ shown = NoEmbed

\* ------------------------------------------------------------ playYouTube
\* voiceConnection.playStream returns a dispatcher no live one is equal to
NewStream(strms) ==
    CHOOSE d \in 1..(Cardinality(strms) + 1) : d \notin {r.id : r \in strms}

\* playYouTube(song), called with currentSong = cs and voiceConnection = vc
\* while the live dispatchers are strms.  With no connection line 153 throws
\* and nothing is changed.  Otherwise lines 153-160 run; sendSongEmbed (162)
\* reads this.currentSong.user and throws when currentSong is null, so the
\* "end" and "error" listeners of lines 164-170 are attached only when cs is
\* an item.
PlayYouTube(s, cs, vc, strms, B) ==
    IF vc = NoChan
      THEN /\ streams' = strms
           /\ UNCHANGED <<dispatcher, dispVol, timers, leaveTimeout,
                          isPlaying>>
      ELSE /\ streams' = strms \cup {[id |-> NewStream(strms), song |-> s,
                                      hooked |-> (cs # NoItem)]}
           /\ dispatcher' = NewStream(strms)
           /\ dispVol' = volume
           /\ timers' = timers \ {leaveTimeout}
           /\ leaveTimeout' = 0
           /\ isPlaying' = TRUE

\* ------------------------------------------------------- startLeaveTimeout
\* setTimeout returns a handle that no armed timer has
NewTimer == CHOOSE t \in 1..(Cardinality(timers) + 1) : t \notin timers

\* the previous handle, if any, is overwritten without clearTimeout
StartLeaveTimeout(B) ==
    /\ Cardinality(timers) < B.timers
    /\ isPlaying' = FALSE
    /\ currentSong' = NoItem
    /\ leaveTimeout' = NewTimer
    /\ timers' = timers \cup {NewTimer}

\* ------------------------------------------------------------- the history
\* the while loop of lines 220-222: shift() while the array is too long
RECURSIVE ShiftWhileTooLong(_)
ShiftWhileTooLong(h) ==
    IF Len(h) > MAX_AUTOPLAY_HISTORY THEN ShiftWhileTooLong(Tail(h)) ELSE h

\* Record with pop() in place of shift(): the newest id is the one dropped
RecordDropNewest(hist, id) ==
    IF Len(hist) >= MAX_AUTOPLAY_HISTORY THEN hist ELSE Append(hist, id)

\* push(videoId), then the loop
Record(hist, id) == ShiftWhileTooLong(Append(hist, id))

\* ---------------------------------------------------------------- onSongEnd
\* The callback run under player.lock when a dispatcher emits "end"; strms
\* are the dispatchers still alive.  The callback does not return the
\* lookup's promise, so the lock is released as soon as the callback returns,
\* with the lookup still pending.
OnSongEnd(strms, B) ==
    IF Len(queue) > 0
      THEN /\ queue' = Tail(queue)
           /\ currentSong' = Head(queue)
           /\ PlayYouTube(Head(queue).song, Head(queue), voiceConnection,
                          strms, B)
           /\ UNCHANGED <<latestAutoplay, recLog, searches>>
      ELSE IF isAutoPlaying
      THEN IF currentSong = NoItem
             THEN \* player.currentSong.song throws; the rejection is logged
                  /\ streams' = strms
                  /\ UNCHANGED <<queue, currentSong, dispatcher, dispVol,
                                 timers, leaveTimeout, isPlaying,
                                 latestAutoplay, recLog, searches>>
             ELSE /\ Len(recLog) < B.rec
                  /\ latestAutoplay' = Record(latestAutoplay, currentSong.song)
                  /\ recLog' = Append(recLog, currentSong.song)
                  /\ searches' = Append(searches, [seed |-> currentSong.song])
                  /\ streams' = strms
                  /\ UNCHANGED <<queue, currentSong, dispatcher, dispVol,
                                 timers, leaveTimeout, isPlaying>>
      ELSE /\ StartLeaveTimeout(B)
           /\ streams' = strms
           /\ UNCHANGED <<queue, dispatcher, dispVol, latestAutoplay, recLog,
                          searches>>

\* the dispatcher d emits "end": listener of lines 164-167, if attached
EmitEnd(d, B) ==
    IF Stream(d).hooked
      THEN OnSongEnd(streams \ {Stream(d)}, B)
      ELSE /\ streams' = streams \ {Stream(d)}
           /\ UNCHANGED <<queue, currentSong, dispatcher, dispVol, timers,
                          leaveTimeout, isPlaying, latestAutoplay, recLog,
                          searches>>

\* ----------------------------------------------------------------- actions
StartPlaying(c, s, B) ==
    /\ UNCHANGED shown
    /\ currentSong' = Item(s, "member", "startPlaying")
    /\ IF voiceConnection = NoChan \/ voiceConnection # c
         THEN /\ joins' = Append(joins, [chan |-> c, song |-> s,
                                         prev |-> currentSong])
              /\ UNCHANGED <<streams, dispatcher, dispVol, timers,
                             leaveTimeout, isPlaying>>
         ELSE /\ PlayYouTube(s, Item(s, "member", "startPlaying"),
                             voiceConnection, streams, B)
              /\ UNCHANGED joins
    /\ UNCHANGED <<queue, isAutoPlaying, latestAutoplay, voiceConnection,
                   volume, searches, recLog>>
    /\ InFlight' <= B.pending

\* the join promise resolves: lines 127-129
JoinOk(i, B) ==
    /\ UNCHANGED shown
    /\ i \in 1..Len(joins)
    /\ voiceConnection' = joins[i].chan
    /\ PlayYouTube(joins[i].song, currentSong, joins[i].chan, streams, B)
    /\ joins' = RemoveAt(joins, i)
    /\ UNCHANGED <<queue, currentSong, isAutoPlaying, latestAutoplay, volume,
                   searches, recLog>>
    /\ InFlight' <= B.pending

\* the join promise rejects: .catch(console.log), line 130
JoinFail(i) ==
    /\ UNCHANGED shown
    /\ i \in 1..Len(joins)
    /\ joins' = RemoveAt(joins, i)
    /\ UNCHANGED <<queue, currentSong, isPlaying, isAutoPlaying,
                   latestAutoplay, leaveTimeout, voiceConnection, dispatcher,
                   volume, dispVol, streams, searches, timers,
                   recLog>>

\* a dispatcher's stream finishes by itself
StreamEnd(d, B) ==
    /\ UNCHANGED shown
    /\ d \in StreamIds
    /\ EmitEnd(d, B)
    /\ UNCHANGED <<isAutoPlaying, voiceConnection, volume, joins>>
    /\ InFlight' <= B.pending

\* a dispatcher's stream fails: the listener of lines 168-170 only logs
StreamError(d) ==
    /\ UNCHANGED shown
    /\ d \in StreamIds
    /\ streams' = streams \ {Stream(d)}
    /\ UNCHANGED <<queue, currentSong, isPlaying, isAutoPlaying,
                   latestAutoplay, leaveTimeout, voiceConnection, dispatcher,
                   volume, dispVol, joins, searches, timers,
                   recLog>>

\* SkipCurrentSong without the test of isPlaying
SkipAnyDispatcher(B) ==
    /\ UNCHANGED shown
    /\ IF dispatcher # 0 /\ DispatcherLive
         THEN EmitEnd(dispatcher, B)
         ELSE UNCHANGED <<queue, currentSong, dispatcher, dispVol, timers,
                          leaveTimeout, isPlaying, latestAutoplay, recLog,
                          searches, streams>>
    /\ UNCHANGED <<isAutoPlaying, voiceConnection, volume, joins>>
    /\ InFlight' <= B.pending

\* skipCurrentSong: dispatcher.end() makes a live dispatcher emit "end"
SkipCurrentSong(B) ==
    /\ UNCHANGED shown
    /\ IF dispatcher # 0 /\ isPlaying /\ DispatcherLive
         THEN EmitEnd(dispatcher, B)
         ELSE UNCHANGED <<queue, currentSong, dispatcher, dispVol, timers,
                          leaveTimeout, isPlaying, latestAutoplay, recLog,
                          searches, streams>>
    /\ UNCHANGED <<isAutoPlaying, voiceConnection, volume, joins>>
    /\ InFlight' <= B.pending

SetVolume(v) ==
    /\ UNCHANGED shown
    /\ volume' = v
    /\ dispVol' = IF dispatcher # 0 THEN v ELSE dispVol
    /\ UNCHANGED <<queue, currentSong, isPlaying, isAutoPlaying,
                   latestAutoplay, leaveTimeout, voiceConnection, dispatcher,
                   streams, joins, searches, timers, recLog>>

\* the lookup promise resolves with song s: lines 225-232.  With no
\* connection playYouTube throws inside .then, and the .catch of lines
\* 233-236 runs startLeaveTimeout.
SearchOk(i, s, B) ==
    /\ UNCHANGED shown
    /\ i \in 1..Len(searches)
    /\ IF voiceConnection = NoChan
         THEN /\ StartLeaveTimeout(B)
              /\ UNCHANGED <<dispatcher, dispVol, streams>>
         ELSE /\ currentSong' = Item(s, "Autoplay", "onSongEnd")
              /\ PlayYouTube(s, Item(s, "Autoplay", "onSongEnd"),
                             voiceConnection, streams, B)
    /\ searches' = RemoveAt(searches, i)
    /\ UNCHANGED <<queue, isAutoPlaying, latestAutoplay, voiceConnection,
                   volume, joins, recLog>>
    /\ InFlight' <= B.pending

\* SearchFail with a handler that asks the service again
SearchFailRetry(i, B) ==
    /\ i \in 1..Len(searches)
    /\ searches' = Append(RemoveAt(searches, i), searches[i])
    /\ UNCHANGED <<queue, currentSong, isPlaying, isAutoPlaying,
                   latestAutoplay, leaveTimeout, voiceConnection, dispatcher,
                   volume, dispVol, streams, joins, timers, recLog, shown>>

\* the lookup promise rejects: lines 233-236
SearchFail(i, B) ==
    /\ UNCHANGED shown
    /\ i \in 1..Len(searches)
    /\ StartLeaveTimeout(B)
    /\ searches' = RemoveAt(searches, i)
    /\ UNCHANGED <<queue, isAutoPlaying, latestAutoplay, voiceConnection,
                   dispatcher, volume, dispVol, streams, joins,
                   recLog>>

\* a leave timeout fires: lines 252-254
TimerFire(t) ==
    /\ UNCHANGED shown
    /\ t \in timers
    /\ timers' = timers \ {t}
    /\ UNCHANGED <<queue, currentSong, isPlaying, isAutoPlaying,
                   latestAutoplay, leaveTimeout, voiceConnection, dispatcher,
                   volume, dispVol, streams, joins, searches, recLog>>

ClearAutoplayHistory ==
    /\ latestAutoplay' = <<>>
    /\ recLog' = <<>>

\* Enqueue with unshift in place of push
EnqueueAtHead(s, B) ==
    /\ UNCHANGED shown
    /\ Len(queue) < B.queue
    /\ queue' = <<Item(s, "member", "enqueue")>> \o queue
    /\ ClearAutoplayHistory
    /\ UNCHANGED <<currentSong, isPlaying, isAutoPlaying, leaveTimeout,
                   voiceConnection, dispatcher, volume, dispVol, streams,
                   joins, searches, timers>>

\* Enqueue without the call of clearAutoplayHistory
EnqueueKeepHistory(s, B) ==
    /\ Len(queue) < B.queue
    /\ queue' = Append(queue, Item(s, "member", "enqueue"))
    /\ UNCHANGED <<currentSong, isPlaying, isAutoPlaying, latestAutoplay,
                   leaveTimeout, voiceConnection, dispatcher, volume, dispVol,
                   streams, joins, searches, timers, recLog, shown>>

Enqueue(s, B) ==
    /\ UNCHANGED shown
    /\ Len(queue) < B.queue
    /\ queue' = Append(queue, Item(s, "member", "enqueue"))
    /\ ClearAutoplayHistory
    /\ UNCHANGED <<currentSong, isPlaying, isAutoPlaying, leaveTimeout,
                   voiceConnection, dispatcher, volume, dispVol, streams,
                   joins, searches, timers>>

ToggleAutoplay ==
    /\ UNCHANGED shown
    /\ isAutoPlaying' = ~isAutoPlaying
    /\ ClearAutoplayHistory
    /\ UNCHANGED <<queue, currentSong, isPlaying, leaveTimeout,
                   voiceConnection, dispatcher, volume, dispVol, streams,
                   joins, searches, timers>>

\* disconnect: the connection is torn down and forgotten; the dispatchers
\* it was playing still emit their terminal event afterwards
Disconnect ==
    /\ UNCHANGED shown
    /\ voiceConnection' = NoChan
    /\ UNCHANGED <<queue, currentSong, isPlaying, isAutoPlaying,
                   latestAutoplay, leaveTimeout, dispatcher, volume, dispVol,
                   streams, joins, searches, timers, recLog>>

\* ------------------------------------------------------------ sendQueueEmbed
\* the % of JavaScript takes the sign of the dividend
JsRem(a, b) == IF a >= 0 THEN a % b ELSE 0 - ((0 - a) % b)
\* Math.trunc(a / b) rounds towards zero
JsTruncDiv(a, b) == IF a >= 0 THEN a \div b ELSE 0 - ((0 - a) \div b)
\* Array.prototype.slice(a, b) for 0 <= a and b <= length
Slice(seq, a, b) == IF a >= b THEN <<>> ELSE SubSeq(seq, a + 1, b)

\* sendQueueEmbed(page): the description lines (position and song of each
\* item of the slice) and the two numbers of the footer
SendQueueEmbed(page) ==
    LET start0 == (page - 1) * 10
        end0 == start0 + 10
        end == IF end0 > Len(queue) THEN Len(queue) ELSE end0
        start == IF start0 > end THEN end - 1 - JsRem(end - 1, 10) ELSE start0
        items == Slice(queue, start, end)
        description == [k \in 1..Len(items) |->
                          [position |-> start + k, song |-> items[k].song]]
    IN /\ shown' = [op |-> "sendQueueEmbed", arg |-> page,
                    out |-> <<description, JsTruncDiv(start, 10) + 1,
                              JsTruncDiv(Len(queue) - 1, 10) + 1>>]
       /\ UNCHANGED <<queue, currentSong, isPlaying, isAutoPlaying,
                      latestAutoplay, leaveTimeout, voiceConnection,
                      dispatcher, volume, dispVol, streams, joins, searches,
                      timers, recLog>>

\* ------------------------------------------------------------ getDurationStr
\* a moment duration is modelled by its length in whole seconds
DurSeconds(duration) == duration % 60
DurMinutes(duration) == (duration \div 60) % 60

GetDurationStr(duration) ==
    LET seconds == DurSeconds(duration)
        minutes == DurMinutes(duration)
        hours == JsTruncDiv(duration - seconds - minutes * 60, 3600)
        str1 == IF seconds < 10 THEN "0" \o ToString(seconds)
                                ELSE ToString(seconds)
        str2 == ToString(minutes) \o ":" \o str1
        str3 == IF minutes < 10 THEN ":0" \o str2 ELSE str2
    IN IF hours > 0 THEN ToString(hours) \o str3 ELSE str2

\* a song of the given duration whose embed has not been built
Song(duration) == [op |-> "song", arg |-> duration, out |-> ""]

\* sendSongEmbed for the song: the text of the "Duration" line of the embed
SendSongEmbed(duration) ==
    /\ shown = Song(duration)
    /\ shown' = [op |-> "sendSongEmbed", arg |-> duration,
                 out |-> GetDurationStr(duration)]
    /\ UNCHANGED <<queue, currentSong, isPlaying, isAutoPlaying,
                   latestAutoplay, leaveTimeout, voiceConnection, dispatcher,
                   volume, dispVol, streams, joins, searches, timers,
                   recLog>>

\* ------------------------------------------------------------ specification
\* every handler, under the bounds B
Step(B) ==
    \/ \E c \in Channels, s \in Songs : StartPlaying(c, s, B)
    \/ \E i \in 1..Len(joins) : JoinOk(i, B)
    \/ \E i \in 1..Len(joins) : JoinFail(i)
    \/ \E d \in StreamIds : StreamEnd(d, B)
    \/ \E d \in StreamIds : StreamError(d)
    \/ SkipCurrentSong(B)
    \/ \E v \in VolArgs : SetVolume(v)
    \/ \E i \in 1..Len(searches), s \in Songs : SearchOk(i, s, B)
    \/ \E i \in 1..Len(searches) : SearchFail(i, B)
    \/ \E t \in timers : TimerFire(t)
    \/ \E s \in Songs : Enqueue(s, B)
    \/ ToggleAutoplay
    \/ Disconnect

Next == Step(Caps)
Spec == Init /\ [][Next]_vars

NextRace == Step(RaceCaps)
SpecRace == Init /\ [][NextRace]_vars

\* Long autoplay runs: one requester asking for one song in one channel
\* while nothing else of the room is in flight and nothing is recorded, and
\* a recommendation service that answers each seed with the other video, so
\* that the history can grow past MAX_AUTOPLAY_HISTORY within the bounds.
OtherSong(s) == IF s = "X123" THEN "Y456" ELSE "X123"

NextHist ==
    \/ /\ recLog = <<>> /\ InFlight = 0
       /\ StartPlaying("general", "X123", HistCaps)
    \/ \E i \in 1..Len(joins) : JoinOk(i, HistCaps)
    \/ \E d \in StreamIds : StreamEnd(d, HistCaps)
    \/ \E i \in 1..Len(searches) :
          SearchOk(i, OtherSong(searches[i].seed), HistCaps)
    \/ \E i \in 1..Len(searches) : SearchFail(i, HistCaps)
    \/ \E t \in timers : TimerFire(t)
    \/ Enqueue("X123", HistCaps)
    \/ ToggleAutoplay

SpecHistory == Init /\ [][NextHist]_vars

\* The pages of the queue: entries are enqueued up to MaxPageQueue and any
\* page is asked for at any time.
NextPage ==
    \/ Enqueue("X123", PageCaps)
    \/ \E page \in 1..MaxPage : SendQueueEmbed(page)

SpecPage == Init /\ [][NextPage]_vars

\* The duration text: the embed of one song is built, for every duration
\* of up to MaxHours hours, 59 minutes and 59 seconds.
Durations == 0..((MaxHours + 1) * 3600 - 1)

InitDuration == InitRoom /\ shown \in {Song(duration) : duration \in Durations}

NextDuration == shown.op = "song" /\ SendSongEmbed(shown.arg)

SpecDuration == InitDuration /\ [][NextDuration]_vars

\* ------------------------------------------------------------------ claims
\* the room is playing the dispatcher d
Playing(d) == isPlaying /\ dispatcher = d /\ d \in StreamIds

\* a step that carries out exactly one decision of onSongEnd: the head of the
\* queue is taken, or else one lookup is started, or else the room enters
\* PendingLeave with a newly armed timer
PopsHead == queue # <<>> /\ queue' = Tail(queue) /\ currentSong' = Head(queue)
StartsLookup == queue = <<>> /\ queue' = queue
                /\ Len(searches') = Len(searches) + 1
EntersPendingLeave ==
    /\ queue = <<>> /\ queue' = queue /\ searches' = searches
    /\ ~isPlaying' /\ currentSong' = NoItem
    /\ leaveTimeout' \in timers'
    /\ Cardinality(timers') = Cardinality(timers) + 1
OneAdvance == PopsHead \/ StartsLookup \/ EntersPendingLeave

\* a step in which onSongEnd's callback runs
AdvanceRuns(B) ==
    \E d \in StreamIds :
        /\ Stream(d).hooked
        /\ StreamEnd(d, B) \/ (Playing(d) /\ SkipCurrentSong(B))

\* C1: whenever the dispatcher the room is playing is ended, by skip() or by
\* the end of its stream, that step carries out exactly one advance.
C1_ExactlyOneAdvance ==
    [][\A d \in StreamIds :
          (Playing(d) /\ (StreamEnd(d, RaceCaps) \/ SkipCurrentSong(RaceCaps)))
              => OneAdvance]_vars

\* C2: no advance runs while the lookup of an earlier advance is in flight.
C2_SingleFlight == [][AdvanceRuns(RaceCaps) => searches = <<>>]_vars

\* C3: every step leaves the queue as it is, appends one entry at its tail,
\* or removes its head, which becomes the current entry; so entries become
\* current in the order they were enqueued and none is duplicated or lost.
C3_QueueIsFifo ==
    [][\/ queue' = queue
       \/ /\ Len(queue') = Len(queue) + 1
          /\ SubSeq(queue', 1, Len(queue)) = queue
          /\ queue'[Len(queue')].by = "enqueue"
       \/ PopsHead]_vars

\* an entry taken from the queue is playing while another one waits
C3_Witness == isPlaying /\ currentSong.by = "enqueue" /\ queue # <<>>

\* the last n elements of a sequence
LastN(seq, n) ==
    IF Len(seq) <= n THEN seq ELSE SubSeq(seq, Len(seq) - n + 1, Len(seq))

\* C4: the history never holds more than 25 ids, and it is always the last
\* (up to 25) ids recorded since it was last cleared, in recording order.
C4_HistoryIsLast25 ==
    /\ Len(latestAutoplay) <= MAX_AUTOPLAY_HISTORY
    /\ latestAutoplay = LastN(recLog, MAX_AUTOPLAY_HISTORY)

\* a 26th id has been recorded since the last clear
C4_Witness ==
    Len(recLog) > MAX_AUTOPLAY_HISTORY /\ Len(latestAutoplay) = MAX_AUTOPLAY_HISTORY

\* C5: dropPlayer is never called while the room is playing.
C5_NoDropWhilePlaying ==
    [][(\E t \in timers : TimerFire(t)) => ~isPlaying]_vars

\* C6: an advance that runs with an empty queue and autoplay off enters
\* PendingLeave (current entry cleared, not playing, idle timer armed), and
\* the armed timer then stays armed until it fires (dropRoom) unless a
\* startPlaying call, or the join it was waiting for, starts a stream.
C6_LeaveThenDrop ==
    [][ /\ (AdvanceRuns(RaceCaps) /\ queue = <<>> /\ ~isAutoPlaying)
              => EntersPendingLeave
        /\ \A t \in timers :
              (t = leaveTimeout /\ ~isPlaying /\ t \notin timers')
                => \/ TimerFire(t)
                   \/ \E c \in Channels, s \in Songs :
                         StartPlaying(c, s, RaceCaps)
                   \/ \E i \in 1..Len(joins) : JoinOk(i, RaceCaps) ]_vars

\* C7: an error of the dispatcher the room is playing carries out exactly one
\* advance, as the end of its stream does.
C7_ErrorAdvances ==
    [][\A d \in StreamIds : (Playing(d) /\ StreamError(d)) => OneAdvance]_vars

\* C8: when a join fails the room is as it was before that startPlaying call:
\* same queue, same current entry, no dispatcher started.
C8_JoinFailKeepsPriorState ==
    [][\A i \in 1..Len(joins) :
          JoinFail(i) => /\ currentSong' = joins[i].prev
                         /\ queue' = queue
                         /\ streams' = streams]_vars

\* C9: the stored volume and the volume of the dispatcher lie in 0.0 .. 1.0.
C9_VolumeInRange == volume \in 0..VolOne /\ dispVol \in 0..VolOne

\* C10: an advance that starts a lookup records the id of the track that
\* just finished and seeds the lookup with it; a lookup that succeeds makes
\* its result the current entry, requested by "Autoplay", with the room
\* playing and no leave timeout armed by the step.
C10_AutoplayAdvance ==
    [][/\ \A d \in StreamIds :
            (StreamEnd(d, RaceCaps) /\ StartsLookup)
                => /\ searches'[Len(searches')].seed = Stream(d).song
                   /\ latestAutoplay' = Record(latestAutoplay, Stream(d).song)
       /\ \A i \in 1..Len(searches), s \in Songs :
            SearchOk(i, s, RaceCaps)
                => /\ currentSong' = Item(s, "Autoplay", "onSongEnd")
                   /\ isPlaying' /\ leaveTimeout' = 0
                   /\ timers' \subseteq timers]_vars

\* C11: when a lookup fails, that lookup is gone and no other is started,
\* the room is in PendingLeave (current entry cleared, not playing, a fresh
\* idle timer armed and held in leaveTimeout), autoplay keeps its value and
\* nothing else of the room changes.
C11_LookupFailureLeaves ==
    [][\A i \in 1..Len(searches) :
          SearchFail(i, RaceCaps)
              => /\ searches' = RemoveAt(searches, i)
                 /\ ~isPlaying' /\ currentSong' = NoItem
                 /\ leaveTimeout' \in timers' \ timers
                 /\ isAutoPlaying' = isAutoPlaying
                 /\ UNCHANGED <<queue, latestAutoplay, streams, dispatcher,
                                joins, voiceConnection>>]_vars

\* a lookup recorded since the last clear is over, autoplay is still on and
\* the room, still connected, waits for its idle timer
C11_Witness ==
    /\ isAutoPlaying /\ recLog # <<>> /\ searches = <<>>
    /\ ~isPlaying /\ currentSong = NoItem /\ leaveTimeout \in timers
    /\ voiceConnection # NoChan /\ streams = {} /\ joins = <<>>

\* C12: enqueue appends exactly one entry at the tail of the queue, empties
\* the autoplay history and changes nothing else: not the current entry, the
\* playing flag, the dispatchers, the volume, autoplay or the idle timer.
C12_EnqueueOnlyAppends ==
    [][\A s \in Songs :
          Enqueue(s, RaceCaps)
              => /\ queue' = Append(queue, Item(s, "member", "enqueue"))
                 /\ latestAutoplay' = <<>>
                 /\ UNCHANGED <<currentSong, isPlaying, dispatcher, streams,
                                volume, dispVol, isAutoPlaying, leaveTimeout,
                                timers, voiceConnection, joins,
                                searches>>]_vars

\* an entry waits in the queue while a recommended track is playing with
\* autoplay on and the history empty
C12_Witness ==
    /\ queue # <<>> /\ latestAutoplay = <<>>
    /\ isPlaying /\ DispatcherLive /\ isAutoPlaying
    /\ currentSong.user = "Autoplay"

\* C13: skipCurrentSong called while the room is not playing changes nothing:
\* no field of the room, no dispatcher, no advance; so any number of such
\* calls leaves the room as it was.
C13_SkipWhenNotPlaying ==
    [][(~isPlaying /\ SkipCurrentSong(RaceCaps)) => UNCHANGED vars]_vars

\* PendingLeave after a track: the room still holds the dispatcher of the
\* track that ended, so only the test of isPlaying stops the skip
C13_Witness ==
    /\ ~isPlaying /\ leaveTimeout \in timers
    /\ dispatcher # 0 /\ streams = {}

\* the page the claim expects for page number p of a queue q: the requested
\* page when it exists, otherwise the last one
ExpectedPage(q, p) ==
    LET total == (Len(q) + 9) \div 10
        n == IF p <= total THEN p ELSE total
        last == IF n * 10 < Len(q) THEN n * 10 ELSE Len(q)
    IN <<[k \in 1..(last - (n - 1) * 10) |->
            [position |-> (n - 1) * 10 + k, song |-> q[(n - 1) * 10 + k].song]],
         n, total>>

\* C14: for a non-empty queue and a page number >= 1, sendQueueEmbed lists a
\* non-empty page: the requested one when it exists, otherwise the last
\* valid one, and the page number it reports is at most the total
\* max(1, ceil(length / 10)).
C14_PageNeverEmpty ==
    [][\A page \in 1..MaxPage :
          (queue # <<>> /\ SendQueueEmbed(page))
              => /\ shown'.out = ExpectedPage(queue, page)
                 /\ shown'.out[1] # <<>>
                 /\ shown'.out[2] <= shown'.out[3]]_vars

\* the step leaves the room playing a dispatcher that streams song s
StartsStream(s) ==
    /\ isPlaying'
    /\ \E r \in streams' : r.id = dispatcher' /\ r.song = s /\ r.hooked

\* C15: an advance that finds the queue non-empty removes exactly its head,
\* makes it the current entry and starts streaming it, whatever autoplay is;
\* it records nothing in the history, starts no lookup and arms no timer.
C15_AdvancePopsAndPlays ==
    [][(AdvanceRuns(RaceCaps) /\ queue # <<>>)
          => /\ PopsHead
             /\ StartsStream(Head(queue).song)
             /\ UNCHANGED <<latestAutoplay, searches, isAutoPlaying>>
             /\ timers' \subseteq timers]_vars

\* C16: the room never has more than one idle timer armed, since arming one
\* cancels the one armed before; so dropPlayer is called at most once even
\* when PendingLeave is entered twice in a row.
C16_OneTimer == Cardinality(timers) <= 1

\* n written with at least two digits
Pad2(n) == IF n < 10 THEN "0" \o ToString(n) ELSE ToString(n)

\* C17: for h hours, m minutes and s seconds the text is "H:MM:SS" when
\* h > 0 and "M:SS" when h = 0, minutes and seconds zero-padded to two
\* digits except the leading unit.
C17_DurationText ==
    shown.op = "sendSongEmbed"
        => LET h == shown.arg \div 3600
               m == (shown.arg \div 60) % 60
               s == shown.arg % 60
           IN shown.out = IF h > 0
                            THEN ToString(h) \o ":" \o Pad2(m) \o ":" \o Pad2(s)
                            ELSE ToString(m) \o ":" \o Pad2(s)

\* C18: whenever a step puts the room in PendingLeave and arms the idle
\* timer, the queue is empty: an entry enqueued while a lookup was in flight
\* is played, not left behind.
C18_LeaveOnlyWithEmptyQueue ==
    [][(timers' \ timers # {}) => (queue = <<>> /\ queue' = <<>>)]_vars

\* C19: a recommended track starts playing only while autoplay is enabled:
\* the result of a lookup that arrives after autoplay was turned off is not
\* played.
C19_AutoplayResultNeedsAutoplay ==
    [][\A i \in 1..Len(searches), s \in Songs :
          (SearchOk(i, s, Caps) /\ StartsStream(s)
              /\ currentSong'.user = "Autoplay") => isAutoPlaying]_vars

\* C20: at every moment the room has at most one dispatcher that is still
\* streaming, also when a second startPlaying is issued while the join of a
\* first one is pending.
C20_OneActiveStream == Cardinality(streams) <= 1

====
